---- MODULE Spec2Model ----
(***************************************************************************)
(* Model of mem0-bridge.py: one process invocation of the command-line     *)
(* bridge.  The process reads sys.argv and the environment, builds the     *)
(* configuration, constructs a Mem0Bridge, dispatches one command and      *)
(* prints to standard output.  The mem0 client, the connectivity probe and *)
(* the clock are external: their outcomes are nondeterministic inputs.     *)
(***************************************************************************)
EXTENDS Integers, Sequences, FiniteSets, TLC

VARIABLES
    argv,         \* sys.argv; argv[1] is Python's sys.argv[0]
    env,          \* os.environ, restricted to the variables that decide control flow
    pc,           \* position of main(): "start", "config", "construct", "dispatch", "exited"
    config,       \* <<>> before main builds it, <<the config dict>> after
    memory,       \* Mem0Bridge.memory: "None" or "client"
    initialized,  \* Mem0Bridge.initialized
    outside,      \* what the bridge met at construction: whether Qdrant answered
                  \* requests.get and whether Memory.from_config returned
    probe,        \* connectivity probe of _initialize_memory: "not_run", "ok", "failed"
    calls,        \* calls made on the mem0 client (self.memory.<method>), in order
    called,       \* bridge method the dispatcher invoked, "none" if it invoked none
    raised,       \* exception that left the invoked bridge method, "none" if it returned
    ret,          \* <<>> or <<the envelope the invoked bridge method returned>>
    stdout,       \* the JSON objects printed to standard output, in order
    traceback,    \* TRUE when an uncaught exception ended the process (traceback on stderr)
    exitCode      \* process exit status, -1 while the process runs

vars == <<argv, env, pc, config, memory, initialized, outside, probe, calls, called,
          raised, ret, stdout, traceback, exitCode>>

----------------------------------------------------------------------------
(* Bounds and input alphabets *)

\* most arguments that follow the command on the command line
MaxArgs == 3

\* an environment variable that is not set (os.getenv returns None / its default)
None == "<unset>"

TagJson == "{\"tag\":\"x\"}"
OverrideJson == "{\"tag\":\"x\",\"timestamp\":\"t0\",\"source\":\"evil\",\"user_id\":\"u9\"}"

\* words a caller may pass after the command
ArgTokens == {"u1", "5", "null", TagJson, OverrideJson}

DataCommands == {"add", "search", "get_all", "update", "delete"}
CommandTokens == DataCommands \cup {"health", "bogus"}

ArgSeqs == UNION {[1..n -> ArgTokens] : n \in 0..MaxArgs}

Argvs == {<<"mem0-bridge.py">>} \cup
         {<<"mem0-bridge.py", c>> \o a : c \in CommandTokens, a \in ArgSeqs}

Envs == [OPENAI_API_KEY : {None, "", "sk-key"},
         QDRANT_PORT : {None, "6333", "abc"},
         MEMGRAPH_PORT : {None, "7687", "bolt"},
         SKIP_CONNECTIVITY_CHECK : {None, "true"}]

\* datetime.now().isoformat() values
Times == {"t1", "t2"}

\* what a call on the mem0 client does: return a JSON-serializable value,
\* return a value json.dumps rejects, or raise
ClientOutcomes == {"ok", "unserializable", "raise"}

----------------------------------------------------------------------------
(* Python helpers *)

\* sys.argv[i] and len(sys.argv), with Python's 0-based index
Arg(i) == argv[i + 1]
argc == Len(argv)

\* os.getenv(name, default)
getenv(name, default) == IF env[name] = None THEN default ELSE env[name]

\* int(s): raises ValueError unless s is a decimal numeral
IntStrings == {"5", "6333", "7687"}
int(s) ==
    IF s \in IntStrings
    THEN [raised |-> FALSE,
          value |-> CASE s = "5" -> 5 [] s = "6333" -> 6333 [] s = "7687" -> 7687]
    ELSE [raised |-> TRUE, value |-> 0]

\* an error message: a fixed text and the value formatted into it
Msg(text, arg) == [text |-> text, arg |-> arg]

EmptyDict == [k \in {} |-> ""]

\* json.loads(s): kind "error" is JSONDecodeError; "dict", "null", "number"
\* are the Python values a well-formed text parses to
json_loads(s) ==
    CASE s = TagJson -> [kind |-> "dict", val |-> [k \in {"tag"} |-> "x"]]
      [] s = OverrideJson ->
           [kind |-> "dict",
            val |-> [k \in {"tag", "timestamp", "source", "user_id"} |->
                       CASE k = "tag" -> "x" [] k = "timestamp" -> "t0"
                         [] k = "source" -> "evil" [] k = "user_id" -> "u9"]]
      [] s = "null" -> [kind |-> "null", val |-> EmptyDict]
      [] s = "5" -> [kind |-> "number", val |-> EmptyDict]
      [] OTHER -> [kind |-> "error", val |-> EmptyDict]

\* faulty dict.update: keys already in d keep their value (setdefault semantics)
dict_update_keep(d, e) ==
    [k \in (DOMAIN d) \cup (DOMAIN e) |-> IF k \in DOMAIN d THEN d[k] ELSE e[k]]

\* dict.update: d.update(e) - the keys of e override those of d
dict_update(d, e) ==
    [k \in (DOMAIN d) \cup (DOMAIN e) |-> IF k \in DOMAIN e THEN e[k] ELSE d[k]]

\* json.dumps(obj) raises TypeError when obj holds a value that is not serializable
json_serializable(obj) ==
    /\ ("result" \in DOMAIN obj => obj.result # "unserializable")
    /\ ("results" \in DOMAIN obj => obj.results # "unserializable")

----------------------------------------------------------------------------
(* Mem0Bridge *)

\* outcome of a bridge method: the exception that left it, the envelope it
\* returned, the client calls it made (each with what the client did: outcome)
NotInitializedMsg == Msg("mem0 not initialized", "")

Raise(e, msg) == [raised |-> e, msg |-> msg, ret |-> <<>>, calls |-> <<>>]
Return(envelope, cs) ==
    [raised |-> "none", msg |-> Msg("", ""), ret |-> <<envelope>>, calls |-> cs]

\* raise RuntimeError("mem0 not initialized")
NotInitialized == Raise("RuntimeError", NotInitializedMsg)

\* the except clause of a bridge method: str(e) of an exception of the client
ClientErrorMsg == Msg("client error", "")
Failure(msg) == [success |-> FALSE, error |-> msg]

\* faulty _initialize_memory: the except clause re-raises (the commented-out raise)
initialize_memory_reraise(key, skip, reachable, mk) ==
    IF key = None \/ key = ""
    THEN [raised |-> TRUE, memory |-> "None", initialized |-> FALSE,
          probe |-> "not_run"]
    ELSE LET p == IF skip # "true"
                  THEN (IF reachable THEN "ok" ELSE "failed")
                  ELSE "not_run"
         IN IF mk
            THEN [raised |-> FALSE, memory |-> "client", initialized |-> TRUE,
                  probe |-> p]
            ELSE [raised |-> TRUE, memory |-> "None", initialized |-> FALSE,
                  probe |-> p]

\* _initialize_memory: key is OPENAI_API_KEY, skip is SKIP_CONNECTIVITY_CHECK,
\* reachable says whether requests.get answers, mk whether Memory.from_config
\* returns.  The except clause sets initialized = False and does not re-raise.
initialize_memory(key, skip, reachable, mk) ==
    IF key = None \/ key = ""
    THEN [raised |-> FALSE, memory |-> "None", initialized |-> FALSE,
          probe |-> "not_run"]
    ELSE LET p == IF skip # "true"
                  THEN (IF reachable THEN "ok" ELSE "failed")
                  ELSE "not_run"
         IN IF mk
            THEN [raised |-> FALSE, memory |-> "client", initialized |-> TRUE,
                  probe |-> p]
            ELSE [raised |-> FALSE, memory |-> "None", initialized |-> FALSE,
                  probe |-> p]

\* faulty add_memory: no initialized gate, so on a bridge that is not
\* initialized self.memory.add fails on None inside the try block
add_memory_ungated(init, messages, user_id, metadata, now, out) ==
    IF metadata.kind \notin {"null", "dict"}
    THEN Return(Failure(Msg("object has no attribute 'update'", "")), <<>>)
    ELSE IF ~init
         THEN Return(Failure(Msg("'NoneType' object has no attribute 'add'", "")), <<>>)
         ELSE LET md == dict_update(IF metadata.kind = "null" THEN EmptyDict
                                    ELSE metadata.val,
                                    [k \in {"timestamp", "source", "user_id"} |->
                                       CASE k = "timestamp" -> now
                                         [] k = "source" -> "autoweave"
                                         [] k = "user_id" -> user_id])
                  call == [method |-> "add", messages |-> messages,
                           user_id |-> user_id, metadata |-> md, outcome |-> out]
              IN IF out = "raise"
                 THEN Return(Failure(ClientErrorMsg), <<call>>)
                 ELSE Return([success |-> TRUE, result |-> out], <<call>>)

\* add_memory: metadata is the Python value the caller passed (a parsed JSON value)
add_memory(init, messages, user_id, metadata, now, out) ==
    IF ~init
    THEN NotInitialized
    ELSE IF metadata.kind \notin {"null", "dict"}
         THEN \* metadata.update raises AttributeError inside the try block
              Return(Failure(Msg("object has no attribute 'update'", "")), <<>>)
         ELSE LET md == dict_update(IF metadata.kind = "null" THEN EmptyDict
                                    ELSE metadata.val,
                                    [k \in {"timestamp", "source", "user_id"} |->
                                       CASE k = "timestamp" -> now
                                         [] k = "source" -> "autoweave"
                                         [] k = "user_id" -> user_id])
                  call == [method |-> "add", messages |-> messages,
                           user_id |-> user_id, metadata |-> md, outcome |-> out]
              IN IF out = "raise"
                 THEN Return(Failure(ClientErrorMsg), <<call>>)
                 ELSE Return([success |-> TRUE, result |-> out], <<call>>)

\* search_memory
search_memory(init, query, user_id, limit, out) ==
    IF ~init
    THEN NotInitialized
    ELSE LET call == [method |-> "search", user_id |-> user_id, query |-> query,
                      limit |-> limit, outcome |-> out]
         IN IF out = "raise"
            THEN Return(Failure(ClientErrorMsg), <<call>>)
            ELSE Return([success |-> TRUE, results |-> out], <<call>>)

\* faulty get_all_memories: the list is returned under another key
get_all_memories_wrong_key(init, user_id, out) ==
    IF ~init
    THEN NotInitialized
    ELSE LET call == [method |-> "get_all", user_id |-> user_id, outcome |-> out]
         IN IF out = "raise"
            THEN Return(Failure(ClientErrorMsg), <<call>>)
            ELSE Return([success |-> TRUE, memories |-> out], <<call>>)

\* get_all_memories
get_all_memories(init, user_id, out) ==
    IF ~init
    THEN NotInitialized
    ELSE LET call == [method |-> "get_all", user_id |-> user_id, outcome |-> out]
         IN IF out = "raise"
            THEN Return(Failure(ClientErrorMsg), <<call>>)
            ELSE Return([success |-> TRUE, results |-> out], <<call>>)

\* update_memory
update_memory(init, memory_id, data, out) ==
    IF ~init
    THEN NotInitialized
    ELSE LET call == [method |-> "update", memory_id |-> memory_id, data |-> data,
                      outcome |-> out]
         IN IF out = "raise"
            THEN Return(Failure(ClientErrorMsg), <<call>>)
            ELSE Return([success |-> TRUE, result |-> out], <<call>>)

\* faulty delete_memory: a failed client call is tried once more
delete_memory_retry(init, memory_id, out) ==
    IF ~init
    THEN NotInitialized
    ELSE LET call == [method |-> "delete", memory_id |-> memory_id, outcome |-> out]
         IN IF out = "raise"
            THEN Return(Failure(ClientErrorMsg), <<call, call>>)
            ELSE Return([success |-> TRUE, result |-> out], <<call>>)

\* delete_memory
delete_memory(init, memory_id, out) ==
    IF ~init
    THEN NotInitialized
    ELSE LET call == [method |-> "delete", memory_id |-> memory_id, outcome |-> out]
         IN IF out = "raise"
            THEN Return(Failure(ClientErrorMsg), <<call>>)
            ELSE Return([success |-> TRUE, result |-> out], <<call>>)

\* faulty health_check: functional is reported true without looking at initialized
health_check_functional(init, now, out) ==
    LET config_part == [vector_store |-> "qdrant", graph_store |-> "memgraph",
                        embedder |-> "openai"]
        call == [method |-> "search", user_id |-> "health_check", query |-> "test",
                 limit |-> 1, outcome |-> out]
    IN IF init /\ out = "raise"
       THEN Return(Failure(ClientErrorMsg), <<call>>)
       ELSE Return([success |-> TRUE,
                    status |-> [initialized |-> init, timestamp |-> now,
                                config |-> config_part, functional |-> TRUE,
                                test_result |-> "Search test successful"]],
                   IF init THEN <<call>> ELSE <<>>)

\* health_check
health_check(init, now, out) ==
    LET status == [initialized |-> init, timestamp |-> now,
                   config |-> [vector_store |-> "qdrant", graph_store |-> "memgraph",
                               embedder |-> "openai"]]
        call == [method |-> "search", user_id |-> "health_check", query |-> "test",
                 limit |-> 1, outcome |-> out]
    IN IF init
       THEN IF out = "raise"
            THEN Return(Failure(ClientErrorMsg), <<call>>)
            ELSE Return([success |-> TRUE,
                         status |-> [initialized |-> status.initialized,
                                     timestamp |-> status.timestamp,
                                     config |-> status.config,
                                     functional |-> TRUE,
                                     test_result |-> "Search test successful"]],
                        <<call>>)
       ELSE Return([success |-> TRUE,
                    status |-> [initialized |-> status.initialized,
                                timestamp |-> status.timestamp,
                                config |-> status.config,
                                functional |-> FALSE,
                                test_result |-> "mem0 not initialized"]],
                   <<>>)

----------------------------------------------------------------------------
(* main *)

Init ==
    /\ argv \in Argvs
    /\ env \in Envs
    /\ pc = "start"
    /\ config = <<>>
    /\ memory = "None"
    /\ initialized = FALSE
    /\ outside = [qdrant_up |-> FALSE, mem0_ok |-> FALSE]
    /\ probe = "not_run"
    /\ calls = <<>>
    /\ called = "none"
    /\ raised = "none"
    /\ ret = <<>>
    /\ stdout = <<>>
    /\ traceback = FALSE
    /\ exitCode = -1

\* print(json.dumps({"error": ...})); sys.exit(1)
ExitError(msg) ==
    /\ stdout' = Append(stdout, [error |-> msg])
    /\ exitCode' = 1
    /\ pc' = "exited"
    /\ traceback' = FALSE

\* if len(sys.argv) < 2
main_check_command ==
    /\ pc = "start"
    /\ IF argc < 2
       THEN ExitError(Msg("Missing command", ""))
       ELSE /\ pc' = "config"
            /\ UNCHANGED <<stdout, exitCode, traceback>>
    /\ UNCHANGED <<argv, env, config, memory, initialized, outside, probe, calls,
                   called, raised, ret>>

\* config = {...}: the two int(os.getenv(...)) calls are outside every try block
main_read_config ==
    /\ pc = "config"
    /\ LET qp == int(getenv("QDRANT_PORT", "6333"))
           mp == int(getenv("MEMGRAPH_PORT", "7687"))
       IN IF qp.raised \/ mp.raised
          THEN /\ traceback' = TRUE
               /\ exitCode' = 1
               /\ pc' = "exited"
               /\ UNCHANGED <<config, stdout>>
          ELSE /\ config' = <<[qdrant_port |-> qp.value, memgraph_port |-> mp.value]>>
               /\ pc' = "construct"
               /\ UNCHANGED <<traceback, exitCode, stdout>>
    /\ UNCHANGED <<argv, env, memory, initialized, outside, probe, calls, called, raised,
                   ret>>

\* bridge = Mem0Bridge(config) inside try/except: __init__ sets memory = None and
\* initialized = False, then runs _initialize_memory
main_create_bridge ==
    /\ pc = "construct"
    /\ \E reachable \in BOOLEAN, mk \in BOOLEAN :
         LET b == initialize_memory(env.OPENAI_API_KEY, env.SKIP_CONNECTIVITY_CHECK,
                                    reachable, mk)
         IN /\ outside' = [qdrant_up |-> reachable, mem0_ok |-> mk]
            /\ memory' = b.memory
            /\ initialized' = b.initialized
            /\ probe' = b.probe
            /\ IF b.raised
               THEN ExitError(Msg("Failed to initialize bridge: ", "exception"))
               ELSE /\ pc' = "dispatch"
                    /\ UNCHANGED <<stdout, traceback, exitCode>>
    /\ UNCHANGED <<argv, env, config, calls, called, raised, ret>>

\* a command branch that raised before it called the bridge
Rejected(e, msg) ==
    [invoked |-> FALSE, raised |-> e, msg |-> msg, ret |-> <<>>, calls |-> <<>>]
\* a command branch that called a bridge method, with the method's outcome r
Invoked(r) ==
    [invoked |-> TRUE, raised |-> r.raised, msg |-> r.msg, ret |-> r.ret,
     calls |-> r.calls]

UsageAdd == Msg("Usage: add <user_id> <message> <metadata_json>", "")
UsageSearch == Msg("Usage: search <user_id> <query> [limit]", "")
UsageGetAll == Msg("Usage: get_all <user_id>", "")
UsageUpdate == Msg("Usage: update <memory_id> <data_json>", "")
UsageDelete == Msg("Usage: delete <memory_id>", "")
JsonDecodeMsg == Msg("Expecting value", "")
IntValueMsg(s) == Msg("invalid literal for int() with base 10: ", s)
NotSerializableMsg == Msg("Object is not JSON serializable", "")

\* faulty end of a command branch: an envelope with success = false is printed
\* and the process exits 1
Finish_exit_on_failure(method, b) ==
    /\ called' = IF b.invoked THEN method ELSE "none"
    /\ raised' = IF b.invoked THEN b.raised ELSE "none"
    /\ ret' = b.ret
    /\ calls' = calls \o b.calls
    /\ IF b.raised # "none"
       THEN ExitError(b.msg)
       ELSE IF ~json_serializable(b.ret[1])
            THEN ExitError(NotSerializableMsg)
            ELSE /\ stdout' = Append(stdout, b.ret[1])
                 /\ exitCode' = IF b.ret[1].success THEN 0 ELSE 1
                 /\ pc' = "exited"
                 /\ traceback' = FALSE
    /\ UNCHANGED <<argv, env, config, memory, initialized, outside, probe>>

\* the end of a command branch: print(json.dumps(result)) after the bridge
\* call, or the except clause of main when the branch raised
Finish(method, b) ==
    /\ called' = IF b.invoked THEN method ELSE "none"
    /\ raised' = IF b.invoked THEN b.raised ELSE "none"
    /\ ret' = b.ret
    /\ calls' = calls \o b.calls
    /\ IF b.raised # "none"
       THEN ExitError(b.msg)
       ELSE IF ~json_serializable(b.ret[1])
            THEN ExitError(NotSerializableMsg)
            ELSE /\ stdout' = Append(stdout, b.ret[1])
                 /\ exitCode' = 0
                 /\ pc' = "exited"
                 /\ traceback' = FALSE
    /\ UNCHANGED <<argv, env, config, memory, initialized, outside, probe>>

\* if command == "add"
branch_add(init, now, out) ==
    IF argc < 5
    THEN Rejected("ValueError", UsageAdd)
    ELSE LET user_id == Arg(2)
             message == Arg(3)
             metadata == IF argc > 4 THEN json_loads(Arg(4))
                         ELSE [kind |-> "dict", val |-> EmptyDict]
             messages == <<[role |-> "user", content |-> message]>>
         IN IF metadata.kind = "error"
            THEN Rejected("JSONDecodeError", JsonDecodeMsg)
            ELSE Invoked(add_memory(init, messages, user_id, metadata, now, out))

main_add ==
    /\ pc = "dispatch"
    /\ Arg(1) = "add"
    /\ \E now \in Times, out \in ClientOutcomes :
         Finish("add_memory", branch_add(initialized, now, out))

\* elif command == "search"
branch_search(init, out) ==
    IF argc < 4
    THEN Rejected("ValueError", UsageSearch)
    ELSE LET user_id == Arg(2)
             query == Arg(3)
             limit == IF argc > 4 THEN int(Arg(4)) ELSE [raised |-> FALSE, value |-> 10]
         IN IF limit.raised
            THEN Rejected("ValueError", IntValueMsg(Arg(4)))
            ELSE Invoked(search_memory(init, query, user_id, limit.value, out))

main_search ==
    /\ pc = "dispatch"
    /\ Arg(1) = "search"
    /\ \E out \in ClientOutcomes :
         Finish("search_memory", branch_search(initialized, out))

\* elif command == "get_all"
branch_get_all(init, out) ==
    IF argc < 3
    THEN Rejected("ValueError", UsageGetAll)
    ELSE Invoked(get_all_memories(init, Arg(2), out))

main_get_all ==
    /\ pc = "dispatch"
    /\ Arg(1) = "get_all"
    /\ \E out \in ClientOutcomes :
         Finish("get_all_memories", branch_get_all(initialized, out))

\* elif command == "update"
branch_update(init, out) ==
    IF argc < 4
    THEN Rejected("ValueError", UsageUpdate)
    ELSE LET memory_id == Arg(2)
             data == json_loads(Arg(3))
         IN IF data.kind = "error"
            THEN Rejected("JSONDecodeError", JsonDecodeMsg)
            ELSE Invoked(update_memory(init, memory_id, data, out))

main_update ==
    /\ pc = "dispatch"
    /\ Arg(1) = "update"
    /\ \E out \in ClientOutcomes :
         Finish("update_memory", branch_update(initialized, out))

\* elif command == "delete"
branch_delete(init, out) ==
    IF argc < 3
    THEN Rejected("ValueError", UsageDelete)
    ELSE Invoked(delete_memory(init, Arg(2), out))

main_delete ==
    /\ pc = "dispatch"
    /\ Arg(1) = "delete"
    /\ \E out \in ClientOutcomes :
         Finish("delete_memory", branch_delete(initialized, out))

\* elif command == "health"
main_health ==
    /\ pc = "dispatch"
    /\ Arg(1) = "health"
    /\ \E now \in Times, out \in ClientOutcomes :
         Finish("health_check", Invoked(health_check(initialized, now, out)))

\* else: raise ValueError(f"Unknown command: {command}")
main_unknown ==
    /\ pc = "dispatch"
    /\ Arg(1) \notin DataCommands \cup {"health"}
    /\ Finish("none", Rejected("ValueError", Msg("Unknown command: ", Arg(1))))

Next ==
    \/ main_check_command
    \/ main_read_config
    \/ main_create_bridge
    \/ main_add
    \/ main_search
    \/ main_get_all
    \/ main_update
    \/ main_delete
    \/ main_health
    \/ main_unknown

Spec == Init /\ [][Next]_vars

----------------------------------------------------------------------------
(* Vocabulary of the properties *)

DataMethods == {"add_memory", "search_memory", "get_all_memories", "update_memory",
                "delete_memory"}

\* the bridge method a command stands for, and the client method that one calls
MethodOf(c) ==
    CASE c = "add" -> "add_memory" [] c = "search" -> "search_memory"
      [] c = "get_all" -> "get_all_memories" [] c = "update" -> "update_memory"
      [] c = "delete" -> "delete_memory" [] c = "health" -> "health_check"
      [] OTHER -> "none"
ClientMethodOf(c) == IF c = "health" THEN "search" ELSE c

\* main got as far as constructing the bridge
BridgeBuilt == pc \in {"dispatch", "exited"} /\ config # <<>>
\* the process ended after the command branch ran
Dispatched == pc = "exited" /\ config # <<>>

KeyMissing == env.OPENAI_API_KEY \in {None, ""}

\* a data command line that carries every argument its usage line names, in
\* well-formed shape
WellFormedCommand ==
    /\ argc >= 2
    /\ CASE Arg(1) = "add" -> argc >= 5 /\ json_loads(Arg(4)).kind # "error"
         [] Arg(1) = "search" -> argc >= 4 /\ (argc > 4 => Arg(4) \in IntStrings)
         [] Arg(1) = "get_all" -> argc >= 3
         [] Arg(1) = "update" -> argc >= 4 /\ json_loads(Arg(3)).kind # "error"
         [] Arg(1) = "delete" -> argc >= 3
         [] OTHER -> FALSE

\* a command line the dispatcher contract rejects: a required argument of the
\* command table is missing, a JSON payload is malformed, or the command is unknown
RejectedCommand ==
    /\ argc >= 2
    /\ CASE Arg(1) = "add" -> argc < 4 \/ (argc >= 5 /\ json_loads(Arg(4)).kind = "error")
         [] Arg(1) = "search" -> argc < 4
         [] Arg(1) = "get_all" -> argc < 3
         [] Arg(1) = "update" -> argc < 4 \/ json_loads(Arg(3)).kind = "error"
         [] Arg(1) = "delete" -> argc < 3
         [] Arg(1) = "health" -> FALSE
         [] OTHER -> TRUE

ClientRaised == calls # <<>> /\ calls[Len(calls)].outcome = "raise"

Keys(envelope) == DOMAIN envelope
PayloadKeys == {"result", "results", "error"}

----------------------------------------------------------------------------
(* C1 *)

\* C1 as stated: health_check returns {success: true, status} in every case,
\* and status.functional is true iff initialization succeeded and the probe
\* search did not raise.
C1_AlwaysSuccess ==
    called = "health_check" =>
        /\ raised = "none"
        /\ Len(ret) = 1
        /\ ret[1].success = TRUE
        /\ "status" \in Keys(ret[1])
        /\ (ret[1].status.functional <=> (initialized /\ ~ClientRaised))

\* C1 amended: health_check never raises and returns one envelope; it is
\* {success: false, error} with no status exactly when the probe search
\* raised, and otherwise {success: true, status} where status.initialized is
\* the flag and status.functional is true iff initialization succeeded.
C1_HealthEnvelope ==
    called = "health_check" =>
        /\ raised = "none"
        /\ Len(ret) = 1
        /\ IF ClientRaised
           THEN Keys(ret[1]) = {"success", "error"} /\ ret[1].success = FALSE
           ELSE /\ Keys(ret[1]) = {"success", "status"}
                /\ ret[1].success = TRUE
                /\ ret[1].status.initialized = initialized
                /\ (ret[1].status.functional <=> initialized)
        /\ (ClientRaised => initialized)

C1_Witness ==
    /\ called = "health_check"
    /\ initialized
    /\ ClientRaised
    /\ ret[1].success = FALSE

----------------------------------------------------------------------------
(* C2 *)

\* C2: when the process has ended, exactly one JSON object was printed to
\* standard output, for every command line, environment and client outcome.
C2_ExactlyOneObject == pc = "exited" => Len(stdout) = 1

----------------------------------------------------------------------------
(* C3 *)

----------------------------------------------------------------------------
(* C4 *)

\* C4: a command line with a required argument missing, a malformed JSON
\* payload or an unknown command ends with a non-zero exit status, one JSON
\* object with an error key on standard output, and no client call.
C4_RejectedCommandEnvelope ==
    pc = "exited" /\ RejectedCommand =>
        /\ exitCode # 0
        /\ Len(stdout) = 1
        /\ "error" \in Keys(stdout[1])
        /\ calls = <<>>

----------------------------------------------------------------------------
(* C5 *)

\* C5: on an initialized bridge a data operation whose client call raises
\* returns {success: false, error}, that envelope is what is printed, and the
\* exit code is 0; whenever an operation's envelope is printed the exit code is 0.
C5_OperationErrorExitsZero ==
    /\ (called \in DataMethods /\ initialized /\ ClientRaised =>
            /\ raised = "none"
            /\ ret = <<Failure(ClientErrorMsg)>>
            /\ stdout = ret
            /\ exitCode = 0)
    /\ (pc = "exited" /\ stdout # <<>> /\ "success" \in Keys(stdout[Len(stdout)]) =>
            exitCode = 0)

C5_Witness ==
    /\ pc = "exited"
    /\ called = "add_memory"
    /\ ClientRaised
    /\ stdout = <<Failure(ClientErrorMsg)>>

----------------------------------------------------------------------------
(* C6 *)

\* C6 as stated: every envelope a bridge operation returns, health_check
\* included, has exactly one of result, results, error: error iff success is
\* false, result or results iff success is true.
C6_ExactlyOnePayloadKey ==
    called # "none" /\ ret # <<>> =>
        /\ Cardinality(Keys(ret[1]) \cap PayloadKeys) = 1
        /\ ("error" \in Keys(ret[1]) <=> ret[1].success = FALSE)
        /\ (Keys(ret[1]) \cap {"result", "results"} # {} <=> ret[1].success = TRUE)

\* C6 amended: the envelope of a data operation has exactly one of result,
\* results, error, keyed to success; the envelope of health_check has error
\* iff success is false, and when success is true it has status and none of
\* result, results, error.
C6_EnvelopeShape ==
    called # "none" /\ ret # <<>> =>
        /\ "success" \in Keys(ret[1])
        /\ ("error" \in Keys(ret[1]) <=> ret[1].success = FALSE)
        /\ IF called = "health_check"
           THEN /\ Keys(ret[1]) \cap {"result", "results"} = {}
                /\ ("status" \in Keys(ret[1]) <=> ret[1].success = TRUE)
           ELSE /\ Cardinality(Keys(ret[1]) \cap PayloadKeys) = 1
                /\ (Keys(ret[1]) \cap {"result", "results"} # {}
                      <=> ret[1].success = TRUE)

C6_Witness ==
    /\ called = "get_all_memories"
    /\ ret # <<>>
    /\ ret[1].success = TRUE
    /\ "results" \in Keys(ret[1])

----------------------------------------------------------------------------
(* C7 *)

\* C7: `add <user_id> <message>` without the metadata argument calls
\* add_memory; it is not rejected as a missing-argument error.
C7_AddMetadataOptional ==
    Dispatched /\ Arg(1) = "add" /\ argc = 4 =>
        /\ called = "add_memory"
        /\ (stdout # <<>> => stdout[1] # [error |-> UsageAdd])

----------------------------------------------------------------------------
(* C8 *)

Injected == {"timestamp", "source", "user_id"}

\* C8: the metadata handed to the client's add call holds a generated
\* timestamp, source = "autoweave" and user_id = the user_id argument, these
\* overriding the caller's values, and every other caller key unchanged; an
\* initialized add_memory with absent or dict metadata makes that call.
C8_MetadataInjected ==
    /\ \A i \in 1..Len(calls) :
         calls[i].method = "add" =>
            LET md == calls[i].metadata
                caller == json_loads(Arg(4)).val
            IN /\ DOMAIN md = Injected \cup DOMAIN caller
               /\ md["timestamp"] \in Times
               /\ md["source"] = "autoweave"
               /\ md["user_id"] = Arg(2)
               /\ calls[i].user_id = Arg(2)
               /\ \A k \in (DOMAIN caller) \ Injected : md[k] = caller[k]
    /\ (called = "add_memory" /\ initialized
            /\ json_loads(Arg(4)).kind \in {"null", "dict"} =>
          Len(calls) = 1 /\ calls[1].method = "add")

C8_Witness ==
    /\ calls # <<>>
    /\ calls[1].method = "add"
    /\ Arg(4) = OverrideJson
    /\ calls[1].metadata["source"] = "autoweave"
    /\ calls[1].metadata["tag"] = "x"

----------------------------------------------------------------------------
(* C9 *)

\* C9: constructing the bridge never raises; afterwards initialized is true,
\* and the client handle set, iff the API key is present and Memory.from_config
\* returned, whatever the connectivity probe did; the "Failed to initialize
\* bridge" exit is never taken, and the health command prints its envelope.
C9_ConstructionNeverRaises ==
    /\ (BridgeBuilt =>
            /\ (initialized <=> (~KeyMissing /\ outside.mem0_ok))
            /\ (memory = "client" <=> initialized))
    /\ \A i \in 1..Len(stdout) :
         "error" \in Keys(stdout[i]) /\ "success" \notin Keys(stdout[i]) =>
            stdout[i].error.text # "Failed to initialize bridge: "
    /\ (Dispatched /\ Arg(1) = "health" =>
            /\ called = "health_check"
            /\ raised = "none"
            /\ stdout = ret
            /\ exitCode = 0)

C9_Witness ==
    /\ Dispatched
    /\ Arg(1) = "health"
    /\ ~KeyMissing
    /\ probe = "failed"
    /\ ~outside.mem0_ok
    /\ ~initialized
    /\ memory = "None"
    /\ stdout # <<>>
    /\ "status" \in Keys(stdout[1])

----------------------------------------------------------------------------
(* C10 *)

\* C10: a process makes at most one call on the client, the one that matches
\* its command (the probe search for health), so a failed call is not
\* retried; and no step after construction changes initialized or the client
\* handle.
C10_AtMostOneClientCall ==
    /\ [](/\ Len(calls) <= 1
          /\ \A i \in 1..Len(calls) : calls[i].method = ClientMethodOf(Arg(1)))
    /\ [][pc = "dispatch" => initialized' = initialized /\ memory' = memory]_vars

C10_Witness ==
    /\ pc = "exited"
    /\ called = "delete_memory"
    /\ Len(calls) = 1
    /\ calls[1].outcome = "raise"

====
